---- MODULE Spec2Model ----
(***************************************************************************)
(* HTTPStatus: the exported object literal of src/HTTPStatus.js, read by   *)
(* property access (HTTPStatus.NOT_FOUND, HTTPStatus[404]) and by the      *)
(* documented accessor HTTPStatus.getStatusText(code).                     *)
(***************************************************************************)
EXTENDS Integers, Sequences, FiniteSets, TLC

(* ---------------------------------------------------------------------- *)
(* Bounds of the exploration                                               *)
(* ---------------------------------------------------------------------- *)
\* largest integer a caller passes
MaxInt == 1000
\* callers pass the negative integers -NegInts .. -1 as well
NegInts == 3
\* number of callers that interleave their lookups
NumCallers == 2
\* number of writes (assignments, deletions) callers attempt in one run
MaxWrites == 2

(* ---------------------------------------------------------------------- *)
(* JavaScript values: numbers, strings, undefined, built-in objects        *)
(* ---------------------------------------------------------------------- *)
Num(n) == [t |-> "number", n |-> n, s |-> ""]
Str(s) == [t |-> "string", n |-> 0, s |-> s]
Undefined == [t |-> "undefined", n |-> 0, s |-> ""]
BuiltinFunction(name) == [t |-> "function", n |-> 0, s |-> name]
BuiltinObject(name) == [t |-> "object", n |-> 0, s |-> name]

Digit(d) ==
    CASE d = 0 -> "0" [] d = 1 -> "1" [] d = 2 -> "2" [] d = 3 -> "3"
      [] d = 4 -> "4" [] d = 5 -> "5" [] d = 6 -> "6" [] d = 7 -> "7"
      [] d = 8 -> "8" [] d = 9 -> "9"

RECURSIVE DecimalDigits(_)
DecimalDigits(n) ==
    IF n < 10 THEN Digit(n) ELSE DecimalDigits(n \div 10) \o Digit(n % 10)

\* Number::toString for an integer: the canonical decimal string
NumberToString(n) ==
    IF n < 0 THEN "-" \o DecimalDigits(0 - n) ELSE DecimalDigits(n)

\* ToPropertyKey: the string under which obj[v] looks a value up
ToPropertyKey(v) ==
    CASE v.t = "number" -> NumberToString(v.n)
      [] v.t = "string" -> v.s
      [] v.t = "undefined" -> "undefined"
      [] v.t = "function" -> "function " \o v.s \o "() { [native code] }"
      [] v.t = "object" -> "[object Object]"

(* ---------------------------------------------------------------------- *)
(* The object literal, in source order                                     *)
(* ---------------------------------------------------------------------- *)
\* NAME: code
NameConstants ==
    << <<"CONTINUE", 100>>,
       <<"SWITCHING_PROTOCOLS", 101>>,
       <<"PROCESSING", 102>>,
       <<"OK", 200>>,
       <<"CREATED", 201>>,
       <<"ACCEPTED", 202>>,
       <<"NON_AUTHORITATIVE_INFORMATION", 203>>,
       <<"NO_CONTENT", 204>>,
       <<"RESET_CONTENT", 205>>,
       <<"PARTIAL_CONTENT", 206>>,
       <<"MULTI_STATUS", 207>>,
       <<"ALREADY_REPORTED", 208>>,
       <<"IM_USED", 209>>,
       <<"MULTIPLE_CHOICES", 300>>,
       <<"MOVED_PERMANENTLY", 301>>,
       <<"FOUND", 302>>,
       <<"SEE_OTHER", 303>>,
       <<"NOT_MODIFIED", 304>>,
       <<"USE_PROXY", 305>>,
       <<"SWITCH_PROXY", 306>>,
       <<"TEMPORARY_REDIRECT", 307>>,
       <<"PERMANENT_REDIRECT", 308>>,
       <<"BAD_REQUEST", 400>>,
       <<"UNAUTHORIZED", 401>>,
       <<"PAYMENT_REQUIRED", 402>>,
       <<"FORBIDDEN", 403>>,
       <<"NOT_FOUND", 404>>,
       <<"METHOD_NOT_ALLOWED", 405>>,
       <<"NOT_ACCEPTABLE", 406>>,
       <<"PROXY_AUTHENTICATION_REQUIRED", 407>>,
       <<"REQUEST_TIMEOUT", 408>>,
       <<"CONFLICT", 409>>,
       <<"GONE", 410>>,
       <<"LENGTH_REQUIRED", 411>>,
       <<"PRECONDITION_FAILED", 412>>,
       <<"REQUEST_ENTITY_TOO_LARGE", 413>>,
       <<"REQUEST_URI_TOO_LONG", 414>>,
       <<"UNSUPPORTED_MEDIA_TYPE", 415>>,
       <<"REQUESTED_RANGE_NOT_SATISFIABLE", 416>>,
       <<"EXPECTATION_FAILED", 417>>,
       <<"I_AM_A_TEAPOT", 418>>,
       <<"AUTHENTICATION_TIMEOUT", 419>>,
       <<"METHOD_FAILURE", 420>>,
       <<"ENHANCE_YOUR_CALM", 420>>,
       <<"UNPROCESSABLE_ENTITY", 422>>,
       <<"LOCKED", 423>>,
       <<"FAILED_DEPENDENCY", 424>>,
       <<"UPGRADE_REQUIRED", 426>>,
       <<"PRECONDITION_REQUIRED", 428>>,
       <<"TOO_MANY_REQUESTS", 429>>,
       <<"REQUEST_HEADER_FIELDS_TOO_LARGE", 431>>,
       <<"LOGIN_TIMEOUT", 440>>,
       <<"NO_RESPONSE", 444>>,
       <<"RETRY_WITH", 449>>,
       <<"BLOCKED_BY_WINDOWS_PARENTAL_CONTROLS", 450>>,
       <<"UNAVAILABLE_FOR_LEGAL_REASONS", 451>>,
       <<"REDIRECT", 451>>,
       <<"REQUEST_HEADER_TOO_LARGE", 494>>,
       <<"CERT_ERROR", 495>>,
       <<"NO_CERT", 496>>,
       <<"HTTP_TO_HTTPS", 497>>,
       <<"TOKEN_EXPIRED", 498>>,
       <<"TOKEN_INVALID", 498>>,
       <<"CLIENT_CLOSED_REQUEST", 499>>,
       <<"TOKEN_REQUIRED", 499>>,
       <<"INTERNAL_SERVER_ERROR", 500>>,
       <<"NOT_IMPLEMENTED", 501>>,
       <<"BAD_GATEWAY", 502>>,
       <<"SERVICE_UNAVAILABLE", 503>>,
       <<"GATEWAY_TIMEOUT", 504>>,
       <<"HTTP_VERSION_NOT_SUPPORTED", 505>>,
       <<"VARIANT_ALSO_NEGOTIATES", 506>>,
       <<"INSUFFICIENT_STORAGE", 507>>,
       <<"LOOP_DETECTED", 508>>,
       <<"BANDWIDTH_LIMIT_EXCEEDED", 509>>,
       <<"NOT_EXTENDED", 510>>,
       <<"NETWORK_AUTHENTICATION_REQUIRED", 511>>,
       <<"ORIGIN_ERROR", 520>>,
       <<"WEB_SERVER_IS_DOWN", 521>>,
       <<"CONNECTION_TIMED_OUT", 522>>,
       <<"PROXY_DECLINED_REQUEST", 523>>,
       <<"A_TIMEOUT_OCCURRED", 524>>,
       <<"NETWORK_READ_TIMEOUT_ERROR", 598>>,
       <<"NETWORK_CONNECT_TIMEOUT_ERROR", 599>> >>

\* code: 'reason text'
StatusDescriptions ==
    << <<100, "Continue">>,
       <<101, "Switching Protocols">>,
       <<102, "Processing">>,
       <<200, "OK">>,
       <<201, "Created">>,
       <<202, "Accepted">>,
       <<203, "Non-Authoritative Information">>,
       <<204, "No Content">>,
       <<205, "Reset Content">>,
       <<206, "Partial Content">>,
       <<207, "Multi-Status">>,
       <<208, "Already Reported">>,
       <<209, "IM Used">>,
       <<300, "Multiple Choices">>,
       <<301, "Moved Permanently">>,
       <<302, "Found">>,
       <<303, "See Other">>,
       <<304, "Not Modified">>,
       <<305, "Use Proxy">>,
       <<306, "Switch Proxy">>,
       <<307, "Temporary Redirect">>,
       <<308, "Permanent Redirect">>,
       <<400, "Bad Request">>,
       <<401, "Unauthorized">>,
       <<402, "Payment Required">>,
       <<403, "Forbidden">>,
       <<404, "Not Found">>,
       <<405, "Method Not Allowed">>,
       <<406, "Not Acceptable">>,
       <<407, "Proxy Authentication Required">>,
       <<408, "Request Timeout">>,
       <<409, "Conflict">>,
       <<410, "Gone">>,
       <<411, "Length Required">>,
       <<412, "Precondition Failed">>,
       <<413, "Request Entity Too Large">>,
       <<414, "Request-URI Too Long">>,
       <<415, "Unsupported Media Type">>,
       <<416, "Requested Range Not Satisfiable">>,
       <<417, "Expectation Failed">>,
       <<418, "I'm a teapot">>,
       <<419, "Authentication Timeout">>,
       <<420, "Method Failure (Spring Framework) / Enhance Your Calm (Twitter)">>,
       <<422, "Unprocessable Entity">>,
       <<423, "Locked">>,
       <<424, "Failed Dependency">>,
       <<426, "Upgrade Required">>,
       <<428, "Precondition Required">>,
       <<429, "Too Many Requests">>,
       <<431, "Request Header Fields Too Large">>,
       <<440, "Login Timeout (Microsoft)">>,
       <<444, "No Response (Nginx)">>,
       <<449, "Retry With (Microsoft)">>,
       <<450, "Blocked by Windows Parental Controls (Microsoft)">>,
       <<451, "Unavailable For Legal Reasons / Redirect (Microsoft)">>,
       <<494, "Request Header Too Large (Nginx)">>,
       <<495, "Cert Error (Nginx)">>,
       <<496, "No Cert (Nginx)">>,
       <<497, "HTTP to HTTPS (Nginx)">>,
       <<498, "Token expired/invalid (Esri)">>,
       <<499, "Client Closed Request (Nginx) / Token required (Esri)">>,
       <<500, "Internal Server Error">>,
       <<501, "Not Implemented">>,
       <<502, "Bad Gateway">>,
       <<503, "Service Unavailable">>,
       <<504, "Gateway Timeout">>,
       <<505, "HTTP Version Not Supported">>,
       <<506, "Variant Also Negotiates">>,
       <<507, "Insufficient Storage">>,
       <<508, "Loop Detected">>,
       <<509, "Bandwidth Limit Exceeded (Apache bw/limited extension)">>,
       <<510, "Not Extended">>,
       <<511, "Network Authentication Required">>,
       <<520, "Origin Error (CloudFlare)">>,
       <<521, "Web server is down (CloudFlare)">>,
       <<522, "Connection timed out (CloudFlare)">>,
       <<523, "Proxy Declined Request (CloudFlare)">>,
       <<524, "A timeout occurred (CloudFlare)">>,
       <<598, "Network read timeout error (Unknown)">>,
       <<599, "Network connect timeout error (Unknown)">> >>

\* the table "Code | Constant | Text" of the documentation
ReadmeCodes ==
    << [code |-> 100, constant |-> "CONTINUE", text |-> "Continue"],
       [code |-> 101, constant |-> "SWITCHING_PROTOCOLS", text |-> "Switching Protocols"],
       [code |-> 102, constant |-> "PROCESSING", text |-> "Processing"],
       [code |-> 200, constant |-> "OK", text |-> "OK"],
       [code |-> 201, constant |-> "CREATED", text |-> "Created"],
       [code |-> 202, constant |-> "ACCEPTED", text |-> "Accepted"],
       [code |-> 203, constant |-> "NON_AUTHORITATIVE_INFORMATION", text |-> "Non-Authoritative Information"],
       [code |-> 204, constant |-> "NO_CONTENT", text |-> "No Content"],
       [code |-> 205, constant |-> "RESET_CONTENT", text |-> "Reset Content"],
       [code |-> 206, constant |-> "PARTIAL_CONTENT", text |-> "Partial Content"],
       [code |-> 207, constant |-> "MULTI_STATUS", text |-> "Multi-Status"],
       [code |-> 208, constant |-> "ALREADY_REPORTED", text |-> "Already Reported"],
       [code |-> 209, constant |-> "IM_USED", text |-> "IM Used"],
       [code |-> 300, constant |-> "MULTIPLE_CHOICES", text |-> "Multiple Choices"],
       [code |-> 301, constant |-> "MOVED_PERMANENTLY", text |-> "Moved Permanently"],
       [code |-> 302, constant |-> "FOUND", text |-> "Found"],
       [code |-> 303, constant |-> "SEE_OTHER", text |-> "See Other"],
       [code |-> 304, constant |-> "NOT_MODIFIED", text |-> "Not Modified"],
       [code |-> 305, constant |-> "USE_PROXY", text |-> "Use Proxy"],
       [code |-> 306, constant |-> "SWITCH_PROXY", text |-> "Switch Proxy"],
       [code |-> 307, constant |-> "TEMPORARY_REDIRECT", text |-> "Temporary Redirect"],
       [code |-> 308, constant |-> "PERMANENT_REDIRECT", text |-> "Permanent Redirect"],
       [code |-> 400, constant |-> "BAD_REQUEST", text |-> "Bad Request"],
       [code |-> 401, constant |-> "UNAUTHORIZED", text |-> "Unauthorized"],
       [code |-> 402, constant |-> "PAYMENT_REQUIRED", text |-> "Payment Required"],
       [code |-> 403, constant |-> "FORBIDDEN", text |-> "Forbidden"],
       [code |-> 404, constant |-> "NOT_FOUND", text |-> "Not Found"],
       [code |-> 405, constant |-> "METHOD_NOT_ALLOWED", text |-> "Method Not Allowed"],
       [code |-> 406, constant |-> "NOT_ACCEPTABLE", text |-> "Not Acceptable"],
       [code |-> 407, constant |-> "PROXY_AUTHENTICATION_REQUIRED", text |-> "Proxy Authentication Required"],
       [code |-> 408, constant |-> "REQUEST_TIMEOUT", text |-> "Request Timeout"],
       [code |-> 409, constant |-> "CONFLICT", text |-> "Conflict"],
       [code |-> 410, constant |-> "GONE", text |-> "Gone"],
       [code |-> 411, constant |-> "LENGTH_REQUIRED", text |-> "Length Required"],
       [code |-> 412, constant |-> "PRECONDITION_FAILED", text |-> "Precondition Failed"],
       [code |-> 413, constant |-> "REQUEST_ENTITY_TOO_LARGE", text |-> "Request Entity Too Large"],
       [code |-> 414, constant |-> "REQUEST_URI_TOO_LONG", text |-> "Request-URI Too Long"],
       [code |-> 415, constant |-> "UNSUPPORTED_MEDIA_TYPE", text |-> "Unsupported Media Type"],
       [code |-> 416, constant |-> "REQUESTED_RANGE_NOT_SATISFIABLE", text |-> "Requested Range Not Satisfiable"],
       [code |-> 417, constant |-> "EXPECTATION_FAILED", text |-> "Expectation Failed"],
       [code |-> 418, constant |-> "I_AM_A_TEAPOT", text |-> "I'm a teapot"],
       [code |-> 419, constant |-> "AUTHENTICATION_TIMEOUT", text |-> "Authentication Timeout"],
       [code |-> 420, constant |-> "METHOD_FAILURE", text |-> "Method Failure (Spring Framework) / Enhance Your Calm (Twitter)"],
       [code |-> 420, constant |-> "ENHANCE_YOUR_CALM", text |-> "Method Failure (Spring Framework) / Enhance Your Calm (Twitter)"],
       [code |-> 422, constant |-> "UNPROCESSABLE_ENTITY", text |-> "Unprocessable Entity"],
       [code |-> 423, constant |-> "LOCKED", text |-> "Locked"],
       [code |-> 424, constant |-> "FAILED_DEPENDENCY", text |-> "Failed Dependency"],
       [code |-> 426, constant |-> "UPGRADE_REQUIRED", text |-> "Upgrade Required"],
       [code |-> 428, constant |-> "PRECONDITION_REQUIRED", text |-> "Precondition Required"],
       [code |-> 429, constant |-> "TOO_MANY_REQUESTS", text |-> "Too Many Requests"],
       [code |-> 431, constant |-> "REQUEST_HEADER_FIELDS_TOO_LARGE", text |-> "Request Header Fields Too Large"],
       [code |-> 440, constant |-> "LOGIN_TIMEOUT", text |-> "Login Timeout (Microsoft)"],
       [code |-> 444, constant |-> "NO_RESPONSE", text |-> "No Response (Nginx)"],
       [code |-> 449, constant |-> "RETRY_WITH", text |-> "Retry With (Microsoft)"],
       [code |-> 450, constant |-> "BLOCKED_BY_WINDOWS_PARENTAL_CONTROLS", text |-> "Blocked by Windows Parental Controls (Microsoft)"],
       [code |-> 451, constant |-> "UNAVAILABLE_FOR_LEGAL_REASONS", text |-> "Unavailable For Legal Reasons / Redirect (Microsoft)"],
       [code |-> 451, constant |-> "REDIRECT", text |-> "Unavailable For Legal Reasons / Redirect (Microsoft)"],
       [code |-> 494, constant |-> "REQUEST_HEADER_TOO_LARGE", text |-> "Request Header Too Large (Nginx)"],
       [code |-> 495, constant |-> "CERT_ERROR", text |-> "Cert Error (Nginx)"],
       [code |-> 496, constant |-> "NO_CERT", text |-> "No Cert (Nginx)"],
       [code |-> 497, constant |-> "HTTP_TO_HTTPS", text |-> "HTTP to HTTPS (Nginx)"],
       [code |-> 498, constant |-> "TOKEN_EXPIRED", text |-> "Token expired/invalid (Esri)"],
       [code |-> 498, constant |-> "TOKEN_INVALID", text |-> "Token expired/invalid (Esri)"],
       [code |-> 499, constant |-> "CLIENT_CLOSED_REQUEST", text |-> "Client Closed Request (Nginx) / Token required (Esri)"],
       [code |-> 499, constant |-> "TOKEN_REQUIRED", text |-> "Client Closed Request (Nginx) / Token required (Esri)"],
       [code |-> 500, constant |-> "INTERNAL_SERVER_ERROR", text |-> "Internal Server Error"],
       [code |-> 501, constant |-> "NOT_IMPLEMENTED", text |-> "Not Implemented"],
       [code |-> 502, constant |-> "BAD_GATEWAY", text |-> "Bad Gateway"],
       [code |-> 503, constant |-> "SERVICE_UNAVAILABLE", text |-> "Service Unavailable"],
       [code |-> 504, constant |-> "GATEWAY_TIMEOUT", text |-> "Gateway Timeout"],
       [code |-> 505, constant |-> "HTTP_VERSION_NOT_SUPPORTED", text |-> "HTTP Version Not Supported"],
       [code |-> 506, constant |-> "VARIANT_ALSO_NEGOTIATES", text |-> "Variant Also Negotiates"],
       [code |-> 507, constant |-> "INSUFFICIENT_STORAGE", text |-> "Insufficient Storage"],
       [code |-> 508, constant |-> "LOOP_DETECTED", text |-> "Loop Detected"],
       [code |-> 509, constant |-> "BANDWIDTH_LIMIT_EXCEEDED", text |-> "Bandwidth Limit Exceeded (Apache bw/limited extension)"],
       [code |-> 510, constant |-> "NOT_EXTENDED", text |-> "Not Extended"],
       [code |-> 511, constant |-> "NETWORK_AUTHENTICATION_REQUIRED", text |-> "Network Authentication Required"],
       [code |-> 520, constant |-> "ORIGIN_ERROR", text |-> "Origin Error (CloudFlare)"],
       [code |-> 521, constant |-> "WEB_SERVER_IS_DOWN", text |-> "Web server is down (CloudFlare)"],
       [code |-> 522, constant |-> "CONNECTION_TIMED_OUT", text |-> "Connection timed out (CloudFlare)"],
       [code |-> 523, constant |-> "PROXY_DECLINED_REQUEST", text |-> "Proxy Declined Request (CloudFlare)"],
       [code |-> 524, constant |-> "A_TIMEOUT_OCCURRED", text |-> "A timeout occurred (CloudFlare)"],
       [code |-> 598, constant |-> "NETWORK_READ_TIMEOUT_ERROR", text |-> "Network read timeout error (Unknown)"],
       [code |-> 599, constant |-> "NETWORK_CONNECT_TIMEOUT_ERROR", text |-> "Network connect timeout error (Unknown)"] >>

(* ---------------------------------------------------------------------- *)
(* Evaluation of the literal and property access                           *)
(* ---------------------------------------------------------------------- *)
\* FOUND is defined a second time, further down, with another code
PropertyDefinitionListRepeatedKey ==
    [i \in 1..Len(NameConstants) |->
        <<NameConstants[i][1], Num(NameConstants[i][2])>>]
    \o
    << <<"FOUND", Num(404)>> >>
    \o
    [i \in 1..Len(StatusDescriptions) |->
        <<NumberToString(StatusDescriptions[i][1]), Str(StatusDescriptions[i][2])>>]

\* the property definitions of the literal: an identifier key is its own
\* name, a numeric-literal key is the decimal string of its value
PropertyDefinitionList ==
    [i \in 1..Len(NameConstants) |->
        <<NameConstants[i][1], Num(NameConstants[i][2])>>]
    \o
    [i \in 1..Len(StatusDescriptions) |->
        <<NumberToString(StatusDescriptions[i][1]), Str(StatusDescriptions[i][2])>>]

LastIndexOf(defs, k) ==
    CHOOSE i \in DOMAIN defs :
        /\ defs[i][1] = k
        /\ \A j \in DOMAIN defs : defs[j][1] = k => j <= i

\* an object literal defines its properties in order; a repeated key keeps
\* the value of its last definition
ObjectLiteral(defs) ==
    [k \in {defs[i][1] : i \in DOMAIN defs} |-> defs[LastIndexOf(defs, k)][2]]

\* 418 carries a reworded text
ModuleExportsRewordedText ==
    [ObjectLiteral(PropertyDefinitionList) EXCEPT !["418"] = Str("I am a teapot")]

\* LOGIN_TIMEOUT is mistyped as 441
ModuleExportsMistypedCode ==
    [ObjectLiteral(PropertyDefinitionList) EXCEPT !["LOGIN_TIMEOUT"] = Num(441)]

\* NOT_FOUND names the neighbouring code
ModuleExportsShiftedName ==
    [ObjectLiteral(PropertyDefinitionList) EXCEPT !["NOT_FOUND"] = Num(403)]

\* the second name of 498 is left out
ModuleExportsAliasDropped ==
    [k \in DOMAIN ObjectLiteral(PropertyDefinitionList) \ {"TOKEN_INVALID"} |->
        ObjectLiteral(PropertyDefinitionList)[k]]

\* the text of 599 is left out
ModuleExportsTextDropped ==
    [k \in DOMAIN ObjectLiteral(PropertyDefinitionList) \ {"599"} |->
        ObjectLiteral(PropertyDefinitionList)[k]]

\* the last constant is mistyped as 600
ModuleExportsCodeOutOfRange ==
    [ObjectLiteral(PropertyDefinitionList)
        EXCEPT !["NETWORK_CONNECT_TIMEOUT_ERROR"] = Num(600)]

\* the text of the code that is no longer used is left empty
ModuleExportsEmptyText ==
    [ObjectLiteral(PropertyDefinitionList) EXCEPT !["306"] = Str("")]

\* the text of 404 is spelled as in the usage example
ModuleExportsLowercasedText ==
    [ObjectLiteral(PropertyDefinitionList) EXCEPT !["404"] = Str("Not found")]

\* IM_USED holds its registered code, 226
ModuleExportsRegisteredCode ==
    [ObjectLiteral(PropertyDefinitionList) EXCEPT !["IM_USED"] = Num(226)]

\* the key 200 holds the code instead of the text
ModuleExportsNumberUnderCode ==
    [ObjectLiteral(PropertyDefinitionList) EXCEPT !["200"] = Num(200)]

\* UPGRADE_REQUIRED is mistyped as 425, a code without a text
ModuleExportsNameWithoutText ==
    [ObjectLiteral(PropertyDefinitionList) EXCEPT !["UPGRADE_REQUIRED"] = Num(425)]

\* SWITCH_PROXY repeats the code of the constant above it
ModuleExportsSharedCode ==
    [ObjectLiteral(PropertyDefinitionList) EXCEPT !["SWITCH_PROXY"] = Num(305)]

\* module.exports = { ... }
ModuleExports == ObjectLiteral(PropertyDefinitionList)

\* the literal is never passed to Object.freeze / seal / preventExtensions:
\* the object is extensible, its properties writable and configurable
Extensible == TRUE
Writable == TRUE
Configurable == TRUE

\* what every object created by a literal inherits from Object.prototype
ObjectPrototype ==
    [k \in {"constructor", "toString", "toLocaleString", "valueOf",
            "hasOwnProperty", "isPrototypeOf", "propertyIsEnumerable",
            "__proto__"} |->
        CASE k = "constructor" -> BuiltinFunction("Object")
          [] k = "__proto__" -> BuiltinObject("Object.prototype")
          [] OTHER -> BuiltinFunction(k)]

\* a missing property reads as a default text
GetDefaulting(O, key) ==
    IF key \in DOMAIN O THEN O[key]
    ELSE IF key \in DOMAIN ObjectPrototype THEN ObjectPrototype[key]
    ELSE Str("Unknown")

\* O[key]: own property, else inherited property, else undefined
Get(O, key) ==
    IF key \in DOMAIN O THEN O[key]
    ELSE IF key \in DOMAIN ObjectPrototype THEN ObjectPrototype[key]
    ELSE Undefined

\* O[key] = v
Set(O, key, v) ==
    IF key \in DOMAIN O
    THEN IF Writable THEN [O EXCEPT ![key] = v] ELSE O
    ELSE IF Extensible
         THEN [k \in DOMAIN O \cup {key} |-> IF k = key THEN v ELSE O[k]]
         ELSE O

\* delete O[key]
Delete(O, key) ==
    IF key \in DOMAIN O /\ Configurable
    THEN [k \in DOMAIN O \ {key} |-> O[k]]
    ELSE O

(* ---------------------------------------------------------------------- *)
(* The accessors                                                           *)
(* ---------------------------------------------------------------------- *)
\* an unmapped code falls back to the first code of its class
lookupByCodeOfClass(O, code) ==
    IF ToPropertyKey(code) \in DOMAIN O
    THEN Get(O, ToPropertyKey(code))
    ELSE Get(O, ToPropertyKey(Num(code.n - (code.n % 100))))

\* HTTPStatus[code]
lookupByCode(O, code) == Get(O, ToPropertyKey(code))

\* HTTPStatus.NAME, HTTPStatus["NAME"]
lookupBySymbolicName(O, name) == Get(O, name)

\* inputs callers pass
IntInputs == (0 - NegInts)..MaxInt

CanonicalDecimal == [n \in IntInputs |-> NumberToString(n)]

IsNumericString(s) == \E n \in IntInputs : CanonicalDecimal[n] = s

StringToNumber(s) == CHOOSE n \in IntInputs : CanonicalDecimal[n] = s

\* HTTPStatus.getStatusText(code): a number or numeric string is looked up
\* as a code; any other string is resolved to its code first
getStatusText(O, x) ==
    IF x.t = "number" THEN lookupByCode(O, x)
    ELSE IF IsNumericString(x.s) THEN lookupByCode(O, Num(StringToNumber(x.s)))
    ELSE LET c == lookupBySymbolicName(O, x.s)
         IN  IF c.t = "number" THEN lookupByCode(O, c) ELSE Undefined

(* ---------------------------------------------------------------------- *)
(* State                                                                   *)
(* ---------------------------------------------------------------------- *)
VARIABLES
    exports,    \* own properties of module.exports: key -> value
    call,       \* per caller: the last call it completed
    writes      \* number of writes callers have made to the object

vars == <<exports, call, writes>>

Callers == 1..NumCallers
MainCaller == CHOOSE p \in Callers : \A q \in Callers : p <= q

NoCall == [op |-> "none", arg |-> Undefined, ret |-> Undefined, threw |-> FALSE]

Returned(op, arg, ret) == [op |-> op, arg |-> arg, ret |-> ret, threw |-> FALSE]

Init ==
    /\ exports = ModuleExports
    /\ call = [p \in Callers |-> NoCall]
    /\ writes = 0

\* strings that are no key of the literal
OtherStrings ==
    {"", "not_found", "Not_Found", "ok", "Ok", "continue", "NOT_A_REAL_STATUS",
     "NOT FOUND", "NOTFOUND", "NOT_FOUND ", "undefined", "NaN", "4O4",
     "constructor", "toString", "toLocaleString", "valueOf", "hasOwnProperty",
     "isPrototypeOf", "propertyIsEnumerable", "__proto__", "getStatusText"}

NameInputs == {NameConstants[i][1] : i \in DOMAIN NameConstants} \cup OtherStrings
DecimalInputs == {CanonicalDecimal[n] : n \in IntInputs}

\* a few inputs of every kind, for the runs with several callers or writes
ProbeInts == {99, 100, 404, 420, 421, 599, 600, 999}
ProbeStrings ==
    {"NOT_FOUND", "OK", "METHOD_FAILURE", "ENHANCE_YOUR_CALM", "404", "999",
     "not_found", "NOT_A_REAL_STATUS", "", "constructor", "NEW_STATUS"}

(* ---------------------------------------------------------------------- *)
(* Operations of a caller                                                  *)
(* ---------------------------------------------------------------------- *)
\* a caller holds the result of its last call until it drops it
Idle(p) == call[p] = NoCall

Discard(p) ==
    /\ ~Idle(p)
    /\ call' = [call EXCEPT ![p] = NoCall]
    /\ UNCHANGED <<exports, writes>>

\* the entry is taken out of the table when it is read
CallLookupByCodeConsuming(p, c) ==
    /\ Idle(p)
    /\ call' = [call EXCEPT ![p] =
                  Returned("lookupByCode", Num(c), lookupByCode(exports, Num(c)))]
    /\ exports' = Delete(exports, ToPropertyKey(Num(c)))
    /\ UNCHANGED writes

CallLookupByCode(p, c) ==
    /\ Idle(p)
    /\ call' = [call EXCEPT ![p] =
                  Returned("lookupByCode", Num(c), lookupByCode(exports, Num(c)))]
    /\ UNCHANGED <<exports, writes>>

\* a name that is looked up and missing is entered into the table
CallLookupBySymbolicNameInterning(p, name) ==
    /\ Idle(p)
    /\ call' = [call EXCEPT ![p] =
                  Returned("lookupBySymbolicName", Str(name),
                           lookupBySymbolicName(exports, name))]
    /\ exports' = IF name \in DOMAIN exports THEN exports
                  ELSE Set(exports, name, Undefined)
    /\ UNCHANGED writes

CallLookupBySymbolicName(p, name) ==
    /\ Idle(p)
    /\ call' = [call EXCEPT ![p] =
                  Returned("lookupBySymbolicName", Str(name),
                           lookupBySymbolicName(exports, name))]
    /\ UNCHANGED <<exports, writes>>

CallGetStatusText(p, x) ==
    /\ Idle(p)
    /\ call' = [call EXCEPT ![p] =
                  Returned("getStatusText", x, getStatusText(exports, x))]
    /\ UNCHANGED <<exports, writes>>

WriteKeys == {"NOT_FOUND", "404", "NEW_STATUS", "999"}
WriteValues == {Num(500), Str("Teapot"), Undefined}

\* HTTPStatus[key] = v
Assign(p, key, v) ==
    /\ Idle(p)
    /\ writes < MaxWrites
    /\ exports' = Set(exports, key, v)
    /\ call' = [call EXCEPT ![p] = Returned("assign", Str(key), v)]
    /\ writes' = writes + 1

\* delete HTTPStatus[key]
Remove(p, key) ==
    /\ Idle(p)
    /\ writes < MaxWrites
    /\ exports' = Delete(exports, key)
    /\ call' = [call EXCEPT ![p] = Returned("delete", Str(key), Undefined)]
    /\ writes' = writes + 1

(* ---------------------------------------------------------------------- *)
(* Specifications                                                          *)
(* ---------------------------------------------------------------------- *)
\* one caller, every input
Next ==
    \/ \E c \in IntInputs : CallLookupByCode(MainCaller, c)
    \/ \E s \in NameInputs : CallLookupBySymbolicName(MainCaller, s)
    \/ \E s \in DecimalInputs : CallLookupBySymbolicName(MainCaller, s)
    \/ \E c \in IntInputs : CallGetStatusText(MainCaller, Num(c))
    \/ \E s \in NameInputs : CallGetStatusText(MainCaller, Str(s))
    \/ \E s \in DecimalInputs : CallGetStatusText(MainCaller, Str(s))
    \/ Discard(MainCaller)

Spec == Init /\ [][Next]_vars

\* several callers interleave their lookups
NextConcurrent ==
    \E p \in Callers :
        \/ \E c \in ProbeInts : CallLookupByCode(p, c)
        \/ \E s \in ProbeStrings : CallLookupBySymbolicName(p, s)
        \/ \E c \in ProbeInts : CallGetStatusText(p, Num(c))
        \/ \E s \in ProbeStrings : CallGetStatusText(p, Str(s))
        \/ Discard(p)

SpecConcurrent == Init /\ [][NextConcurrent]_vars

\* a caller also assigns to and deletes from the exported object
NextMutable ==
    \/ \E c \in ProbeInts : CallLookupByCode(MainCaller, c)
    \/ \E s \in ProbeStrings : CallLookupBySymbolicName(MainCaller, s)
    \/ \E c \in ProbeInts : CallGetStatusText(MainCaller, Num(c))
    \/ \E s \in ProbeStrings : CallGetStatusText(MainCaller, Str(s))
    \/ \E k \in WriteKeys, v \in WriteValues : Assign(MainCaller, k, v)
    \/ \E k \in WriteKeys : Remove(MainCaller, k)
    \/ Discard(MainCaller)

SpecMutable == Init /\ [][NextMutable]_vars

(* ---------------------------------------------------------------------- *)
(* Vocabulary of the properties                                            *)
(* ---------------------------------------------------------------------- *)
ReadmeRows == {ReadmeCodes[i] : i \in DOMAIN ReadmeCodes}
DocumentedNames == {r.constant : r \in ReadmeRows}
TableCodes == {StatusDescriptions[i][1] : i \in DOMAIN StatusDescriptions}
NotFound == Undefined
last == call[MainCaller]

C2_NameYieldsDocumentedCode ==
    (last.op = "lookupBySymbolicName" /\ last.arg.s \in DocumentedNames)
    => /\ \A r \in ReadmeRows : r.constant = last.arg.s => last.ret = Num(r.code)
       /\ last.arg.s = "OK" => last.ret = Num(200)
       /\ last.arg.s = "NOT_FOUND" => last.ret = Num(404)
       /\ last.arg.s = "LOGIN_TIMEOUT" => last.ret = Num(440)
       /\ last.arg.s = "ORIGIN_ERROR" => last.ret = Num(520)

C2_Witness ==
    last = Returned("lookupBySymbolicName", Str("LOGIN_TIMEOUT"), Num(440))

Unresolvable(x) ==
    IF x.t = "number" THEN x.n \notin TableCodes
    ELSE /\ x.s \notin DocumentedNames
         /\ \A c \in TableCodes : x.s # NumberToString(c)

\* C4: getStatusText of an input that resolves to no entry completes without
\* an exception and returns the one absence value.
C4_UnresolvableIsNotFound ==
    (last.op = "getStatusText" /\ Unresolvable(last.arg))
    => (~last.threw /\ last.ret = NotFound)

C4_Witness ==
    last = Returned("getStatusText", Num(999), NotFound)

\* C5: lookupByCode of an integer that is no key of the numeric table is
\* NotFound, also below 100, above 599 and in the gaps 421, 425, 430, 512.
C5_UnmappedCodeIsNotFound ==
    /\ {99, 421, 425, 430, 512, 600, 999} \cap TableCodes = {}
    /\ (last.op = "lookupByCode" /\ last.arg.n \notin TableCodes)
       => last.ret = NotFound

C5_Witness ==
    last = Returned("lookupByCode", Num(421), NotFound)

\* C6: lookupBySymbolicName of a string that is not exactly one of the
\* enumerated symbolic names ("not_found", "", "constructor", ...) is
\* NotFound.
C6_OnlyNamesResolve ==
    (last.op = "lookupBySymbolicName" /\ last.arg.s \notin DocumentedNames)
    => last.ret = NotFound

\* C7: whatever callers do to the exported object, its keys and their values
\* stay those of the literal.
C7_RegistryFrozen == exports = ModuleExports

AccessorOps == {"lookupByCode", "lookupBySymbolicName", "getStatusText"}

\* C8: a step in which a caller completes an accessor call, with a result or
\* with NotFound, changes neither the table nor any other shared state.
C8_AccessorsLeaveStateUnchanged ==
    [][\A p \in Callers :
          (Idle(p) /\ call'[p].op \in AccessorOps)
          => /\ exports' = exports
             /\ writes' = writes
             /\ \A q \in Callers \ {p} : call'[q] = call[q]]_vars

C8_Witness ==
    /\ last.op = "lookupBySymbolicName"
    /\ last.ret = NotFound
    /\ exports # ModuleExports

\* the result of one call made alone, right after initialization
RunAlone(op, arg) ==
    CASE op = "lookupByCode" -> lookupByCode(ModuleExports, arg)
      [] op = "lookupBySymbolicName" -> lookupBySymbolicName(ModuleExports, arg.s)
      [] op = "getStatusText" -> getStatusText(ModuleExports, arg)

\* C9: whatever the interleaving of the callers' lookups, two lookups of one
\* key, by one caller or by two, return the same value, the value the
\* lookup returns when run alone.
C9_LookupsAgree ==
    \A p \in Callers :
        call[p].op \in AccessorOps
        => /\ call[p].ret = RunAlone(call[p].op, call[p].arg)
           /\ \A q \in Callers :
                 (call[q].op = call[p].op /\ call[q].arg = call[p].arg)
                 => call[q].ret = call[p].ret

C9_Witness ==
    /\ \A p \in Callers : call[p].op = "lookupByCode" /\ call[p].arg = Num(404)
    /\ call[MainCaller].ret = Str("Not Found")

AliasPairs ==
    { <<"METHOD_FAILURE", "ENHANCE_YOUR_CALM", 420>>,
      <<"UNAVAILABLE_FOR_LEGAL_REASONS", "REDIRECT", 451>>,
      <<"TOKEN_EXPIRED", "TOKEN_INVALID", 498>>,
      <<"CLIENT_CLOSED_REQUEST", "TOKEN_REQUIRED", 499>> }

\* C10: both names of 420, of 451, of 498 and of 499 are keys of the table
\* and a lookup of either returns that code.
C10_BothAliasesResolve ==
    \A a \in AliasPairs :
        /\ {a[1], a[2]} \subseteq DOMAIN exports
        /\ exports[a[1]] = exports[a[2]]
        /\ (last.op = "lookupBySymbolicName" /\ last.arg.s \in {a[1], a[2]})
           => last.ret = Num(a[3])

C10_Witness ==
    last = Returned("lookupBySymbolicName", Str("TOKEN_INVALID"), Num(498))

\* C11: getStatusText of the decimal string of an integer returns what
\* getStatusText and lookupByCode return for the integer: the documented
\* text when the integer is a mapped code, NotFound when it is not.
C11_DecimalStringAsCode ==
    (last.op = "getStatusText" /\ last.arg.t = "string")
    => \A n \in IntInputs :
          NumberToString(n) = last.arg.s
          => /\ last.ret = getStatusText(exports, Num(n))
             /\ last.ret = lookupByCode(exports, Num(n))
             /\ \A r \in ReadmeRows : r.code = n => last.ret = Str(r.text)
             /\ n \notin TableCodes => last.ret = NotFound

C11_Witness ==
    last = Returned("getStatusText", Str("599"),
                    Str("Network connect timeout error (Unknown)"))

\* the decimal string of an unmapped integer
C11_WitnessUnmapped ==
    last = Returned("getStatusText", Str("425"), NotFound)

DefinitionKeysDistinct ==
    \A i, j \in DOMAIN PropertyDefinitionList :
        PropertyDefinitionList[i][1] = PropertyDefinitionList[j][1] => i = j

\* C12: no key is defined twice in the literal: every code is defined once
\* as a key of the texts, every symbolic name once as a key of the codes, so
\* the object has one property per definition and a lookup returns the value
\* of the key's only definition.
C12_NoDuplicateKey ==
    /\ DefinitionKeysDistinct
    /\ Cardinality(DOMAIN exports) = Len(PropertyDefinitionList)
    /\ last.op = "lookupBySymbolicName"
       => \A i \in DOMAIN PropertyDefinitionList :
             PropertyDefinitionList[i][1] = last.arg.s
             => last.ret = PropertyDefinitionList[i][2]

C12_Witness ==
    last = Returned("lookupBySymbolicName", Str("FOUND"), Num(302))

\* the integers whose decimal string is a key of the object, and the codes
\* its symbolic names hold
CodeKeys(O) == {n \in IntInputs : CanonicalDecimal[n] \in DOMAIN O}
NameKeys(O) == {k \in DOMAIN O : O[k].t = "number"}
NameCodes(O) == {O[k].n : k \in NameKeys(O)}
TableCodesInRange == TableCodes \subseteq 100..599

\* C13: every code with a text and every code a symbolic name holds lies in
\* 100..599; 100 is the smallest and 599 the largest code with a text, and
\* both have their texts.
C13_CodesWithinRange ==
    /\ TableCodesInRange
    /\ CodeKeys(exports) \subseteq 100..599
    /\ NameCodes(exports) \subseteq 100..599
    /\ 100 \in CodeKeys(exports) /\ 599 \in CodeKeys(exports)
    /\ (last.op = "lookupByCode" /\ last.arg.n = 100) => last.ret = Str("Continue")
    /\ (last.op = "lookupByCode" /\ last.arg.n = 599)
       => last.ret = Str("Network connect timeout error (Unknown)")

C13_Witness ==
    last = Returned("lookupByCode", Num(599),
                    Str("Network connect timeout error (Unknown)"))

\* C14: the text of every mapped code is a string that is not empty.
C14_TextsNonEmpty ==
    /\ \A n \in CodeKeys(exports) :
          /\ exports[CanonicalDecimal[n]].t = "string"
          /\ exports[CanonicalDecimal[n]].s # ""
    /\ (last.op = "lookupByCode" /\ last.arg.n \in TableCodes)
       => (last.ret.t = "string" /\ last.ret.s # "")

C14_Witness ==
    last = Returned("lookupByCode", Num(306), Str("Switch Proxy"))

\* the usage example: HTTPStatus.NOT_FOUND; //> 404
\* and HTTPStatus[404]; //> 'Not found'
ReadmeExample == [constant |-> "NOT_FOUND", code |-> 404, text |-> "Not found"]

\* the calls of the usage example that are to yield the text t
ExampleYields(t) ==
    /\ (last.op = "lookupBySymbolicName" /\ last.arg.s = ReadmeExample.constant)
       => last.ret = Num(ReadmeExample.code)
    /\ (last.op \in {"lookupByCode", "getStatusText"}
          /\ last.arg \in {Num(ReadmeExample.code),
                           lookupBySymbolicName(exports, ReadmeExample.constant)})
       => last.ret = Str(t)

SectionStart == <<1, 4, 14, 23, 66>>

\* the section the i-th constant is defined in
SectionOf(i) ==
    CHOOSE c \in DOMAIN SectionStart :
        /\ SectionStart[c] <= i
        /\ \A d \in DOMAIN SectionStart : SectionStart[d] <= i => d <= c

\* the range the interface listing gives each class
ClassRange ==
    << 100..102, 200..209, 300..308,
       (400..431) \cup (440..499), (500..511) \cup (520..599) >>

\* C16: every symbolic name holds a code in the range of its class
\* (100-102, 200-209, 300-308, 400-431 or 440-499, 500-511 or 520-599), and
\* no code with a text lies outside these ranges.
C16_NamesWithinClassRange ==
    /\ \A i \in DOMAIN NameConstants :
          /\ NameConstants[i][1] \in DOMAIN exports
          /\ exports[NameConstants[i][1]].n \in ClassRange[SectionOf(i)]
          /\ (last.op = "lookupBySymbolicName" /\ last.arg.s = NameConstants[i][1])
             => (last.ret.t = "number" /\ last.ret.n \in ClassRange[SectionOf(i)])
    /\ CodeKeys(exports) \subseteq UNION {ClassRange[c] : c \in DOMAIN ClassRange}

C16_Witness ==
    last = Returned("lookupBySymbolicName", Str("IM_USED"), Num(209))

\* the keys the literal writes as numbers and the keys it writes as names
CodeTableKeys == {NumberToString(c) : c \in TableCodes}
NameTableKeys == {NameConstants[i][1] : i \in DOMAIN NameConstants}

\* C17: in the one exported object a key that is a decimal integer holds a
\* string, every other key holds an integer, and no symbolic name is a
\* decimal integer: each key belongs to exactly one of the two tables.
C17_KeySpacesDisjoint ==
    /\ \A k \in DOMAIN exports :
          IF k \in DecimalInputs
          THEN exports[k].t = "string" /\ k \in CodeTableKeys
          ELSE exports[k].t = "number" /\ k \in NameTableKeys
    /\ NameTableKeys \cap DecimalInputs = {}
    /\ CodeTableKeys \cap NameTableKeys = {}
    /\ DOMAIN exports = CodeTableKeys \cup NameTableKeys
    /\ (last.op = "lookupBySymbolicName" /\ last.arg.s \in DOMAIN exports)
       => (last.ret.t = "string" <=> last.arg.s \in DecimalInputs)

C17_Witness ==
    last = Returned("lookupBySymbolicName", Str("200"), Str("OK"))

\* C18: the codes that symbolic names hold are the codes that have a text:
\* every name's code has a text, so the text of a defined name is never
\* NotFound, and every code with a text has a symbolic name.
C18_NameCodesAreTextCodes ==
    /\ NameCodes(exports) = CodeKeys(exports)
    /\ (last.op = "getStatusText" /\ last.arg.s \in NameTableKeys)
       => (last.ret # NotFound /\ last.ret.t = "string")
    /\ (last.op = "lookupByCode" /\ last.ret # NotFound)
       => \E k \in NameKeys(exports) : exports[k] = last.arg

C18_Witness ==
    last = Returned("getStatusText", Str("UPGRADE_REQUIRED"), Str("Upgrade Required"))

\* the symbolic names that hold the code c
NamesOf(O, c) == {k \in NameKeys(O) : O[k].n = c}

SharedCodes == {420, 451, 498, 499}

\* C19: 420, 451, 498 and 499 have exactly two symbolic names each, and every
\* other mapped code has exactly one.
C19_ExactlyFourSharedCodes ==
    /\ SharedCodes \subseteq NameCodes(exports)
    /\ \A c \in NameCodes(exports) \cup CodeKeys(exports) :
          Cardinality(NamesOf(exports, c)) = IF c \in SharedCodes THEN 2 ELSE 1
    /\ (last.op = "lookupBySymbolicName" /\ last.ret.t = "number")
       => (\E k \in NameKeys(exports) \ {last.arg.s} : exports[k] = last.ret)
          <=> last.ret.n \in SharedCodes

C19_Witness ==
    last = Returned("lookupBySymbolicName", Str("REDIRECT"), Num(451))

====
